---- MODULE Spec2Model ----
(***************************************************************************)
(* A model of fetch_videos.py: the channel-reference classifier, the paged *)
(* listing readers, the custom-playlist/video merge, the CSV export and    *)
(* the tracking ledger.                                                    *)
(*                                                                         *)
(* The remote API is the environment.  Every request is one step: the      *)
(* service answers with a page (items and an optional continuation token)  *)
(* or with an HttpError.  The service decides the size of a listing at its *)
(* first request and how it is cut into pages as it goes.                  *)
(*                                                                         *)
(* Text on which the code only concatenates or compares is a TLA+ string;  *)
(* text the code scans (re.search, `in`, re.sub) is a tuple of characters. *)
(***************************************************************************)
EXTENDS Integers, Sequences, FiniteSets, TLC

VARIABLES
    pc,                  \* position of main(): "channel", "playlists", "mapping",
                         \* "videos", "augment", "save", "track", "done", "exit"
    exit_code,           \* -1 while running, else the process exit code
    related_playlists,   \* contentDetails.relatedPlaylists (role -> playlist id)
    playlists,           \* get_all_playlists: the accumulator
    all_playlists,       \* main: what get_all_playlists returned
    custom_playlists,    \* main: what filter_custom_playlists returned
    pl_i,                \* build_video_playlist_mapping: index of the playlist being read
    next_page_token,     \* the running reader's next_page_token (NoToken: None)
    video_playlist_map,  \* build_video_playlist_mapping: video id -> list of titles
    videos,              \* fetch_all_videos: the accumulator, then main's videos
    csv,                 \* the CSV file: [exists, filename, rows]
    ledger,              \* data/tracked_channels.txt: [exists, lines]
    srvLeft,             \* service: items of the listing being read not served yet
    srvPage,             \* service: the page size of the listing being read
    srvBudget,           \* service: playlist items no listing read so far holds
    reqLog,              \* every list request issued: [api, part, id, pageToken]
    servedPages,         \* the pages the uploads listing has answered with
    failedPlaylists,     \* ids of custom playlists whose read raised HttpError
    listFailed,          \* the playlist listing raised HttpError
    uploadsFailed,       \* the uploads listing raised HttpError
    errMsg,              \* what fetch_all_videos printed before sys.exit(1)
    clock,               \* the day, as an index into Dates
    runs,                \* tracking-ledger runs so far
    latest,              \* channel id -> the entry line of its most recent run
    ledger0,             \* the ledger before the first run
    url,                 \* extract_channel_id: the input
    result               \* extract_channel_id: the returned pair, or NoResult

vars == <<pc, exit_code, related_playlists, playlists, all_playlists,
          custom_playlists, pl_i, next_page_token, video_playlist_map, videos,
          csv, ledger, srvLeft, srvPage, srvBudget, reqLog, servedPages,
          failedPlaylists, listFailed, uploadsFailed, errMsg, clock, runs,
          latest, ledger0, url, result>>

-----------------------------------------------------------------------------
(* Bounds of the model *)

\* most playlists the channel's playlist listing holds
MaxPlaylists == 3
\* most playlist items (custom playlists and uploads together) the service
\* holds for the channel
MaxItems == 4
\* most items the service puts on one page
MaxPageSize == 2
\* most runs recorded in the tracking ledger
MaxRuns == 3
\* most segments a channel reference is built from
MaxSegs == 4

-----------------------------------------------------------------------------
(* Values *)

NoToken == 0
\* a file that does not exist
NoFile == [exists |-> FALSE, lines |-> <<>>]
NoCsv == [exists |-> FALSE, filename |-> <<>>, rows |-> <<>>]
NoResult == <<>>
Running == -1

\* SeqsUpTo(S, n): the sequences over S of length at most n
SeqsOfLen(S, n) == [1..n -> S]
SeqsUpTo(S, n) == UNION {SeqsOfLen(S, k) : k \in 0..n}

Range(s) == {s[i] : i \in DOMAIN s}
Injective(s) == \A i, j \in DOMAIN s : s[i] = s[j] => i = j

RECURSIVE Flatten(_)
Flatten(pages) ==
    IF pages = <<>> THEN <<>> ELSE Head(pages) \o Flatten(Tail(pages))

-----------------------------------------------------------------------------
(* The channel and what the service knows about it *)

\* the channel the run is about: its id and display title, as the code scans them
ChannelId == <<"U", "C", "x">>
\* the same id as the key of a request
ChannelKey == "UCx"
ChannelName == <<"M", "y", " ", "-", " ", "C", "h", "!">>

\* contentDetails.relatedPlaylists of the channel
RelatedPlaylists == [uploads |-> "UU", likes |-> "LL"]

\* values view of a dict
Values(d) == {d[k] : k \in DOMAIN d}

\* the playlists the playlist listing can hold: (id, snippet.title)
PlaylistRefs == {<<"PLa", "A">>, <<"PLb", "B">>, <<"UU", "Uploads">>}

\* video ids a custom playlist's membership listing can hold
MemberPool == {"v1", "v3"}
\* video ids the uploads listing can hold
UploadPool == {"v1", "v2"}

\* snippet.title and snippet.publishedAt of a video
SnippetTitle(v) == "Title " \o v
PublishedAt(v) ==
    IF v = "v1"
    THEN <<"2","0","2","4","-","0","1","-","0","2","T","0","3",":","0","4",":","0","5","Z">>
    ELSE <<"2","0","2","3","-","1","2","-","3","1","T","2","3",":","5","9",":","5","9","Z">>

\* one HttpError: its resp.status
HttpStatuses == {403, 500}

(***************************************************************************)
(* The answers of a paged list endpoint to a request carrying `token`.     *)
(* `left` is the number of items not served yet and `size` the page size   *)
(* of the listing.  An empty listing is one page with no items and no      *)
(* token; otherwise a page, one of `pages`, holds `size` items, or the     *)
(* `left` ones when these are fewer, and carries a token exactly when      *)
(* items remain.  The token of page n+1 is n.                              *)
(***************************************************************************)
PageAnswers(left, size, token, pages) ==
    LET n == IF left < size THEN left ELSE size
    IN  {[items |-> s,
          nextPageToken |-> IF n = left THEN NoToken ELSE token + 1,
          left |-> left - n] : s \in {t \in pages : Len(t) = n}}

\* the sizes the listing may have when `token` opens or continues a read
Sizes(token, max) == IF token = NoToken THEN 0..max ELSE {srvLeft}

\* the page sizes the listing may have when `token` opens or continues a read
PageSizes(token) == IF token = NoToken THEN 1..MaxPageSize ELSE {srvPage}

\* the budget left once a listing of size n has been opened with `token`
Budget(token, n) == IF token = NoToken THEN srvBudget - n ELSE srvBudget

\* a request, as the service sees it
Request(api, part, id, token) ==
    [api |-> api, part |-> part, id |-> id, pageToken |-> token]

-----------------------------------------------------------------------------
(* Pure functions of the program *)

\* a filter that looks the ids up among the roles, not among the ids
FilterCustomPlaylists_Keys(all, related) ==
    LET system_playlist_ids == DOMAIN related
        Custom(p) == p[1] \notin system_playlist_ids
    IN  SelectSeq(all, Custom)

\* filter_custom_playlists
FilterCustomPlaylists(all, related) ==
    LET system_playlist_ids == Values(related)
        Custom(p) == p[1] \notin system_playlist_ids
    IN  SelectSeq(all, Custom)

\* a merge that puts the newest title first
AddItem_Prepend(map, video_id, playlist_title) ==
    LET m == IF video_id \in DOMAIN map
             THEN map
             ELSE [v \in DOMAIN map \cup {video_id} |->
                      IF v = video_id THEN <<>> ELSE map[v]]
    IN  [m EXCEPT ![video_id] = <<playlist_title>> \o @]

\* build_video_playlist_mapping, lines 216-219: one item of a page
AddItem(map, video_id, playlist_title) ==
    LET m == IF video_id \in DOMAIN map
             THEN map
             ELSE [v \in DOMAIN map \cup {video_id} |->
                      IF v = video_id THEN <<>> ELSE map[v]]
    IN  [m EXCEPT ![video_id] = Append(@, playlist_title)]

\* build_video_playlist_mapping, lines 215-219: the items of one page, in order
RECURSIVE AddItems(_, _, _)
AddItems(map, items, playlist_title) ==
    IF items = <<>> THEN map
    ELSE AddItems(AddItem(map, Head(items), playlist_title), Tail(items),
                  playlist_title)

\* ','.join(names)
RECURSIVE Join(_)
Join(names) ==
    IF names = <<>> THEN ""
    ELSE IF Len(names) = 1 THEN Head(names)
    ELSE Head(names) \o "," \o Join(Tail(names))

\* dict.get(key, default)
Get(d, key, default) == IF key \in DOMAIN d THEN d[key] ELSE default

\* datetime.strptime(published_at, '%Y-%m-%dT%H:%M:%SZ').strftime('%Y-%m-%d'):
\* of a well-formed timestamp, its calendar date
FormatDate(published_at) == SubSeq(published_at, 1, 10)

\* fetch_all_videos, lines 280-297: the record of one item
VideoRecord(video_id) ==
    [video_id |-> video_id,
     title |-> SnippetTitle(video_id),
     date |-> FormatDate(PublishedAt(video_id)),
     url |-> "https://www.youtube.com/watch?v=" \o video_id]

\* fetch_all_videos, lines 280-297: the records of one page, in order
VideoRecords(items) == [i \in DOMAIN items |-> VideoRecord(items[i])]

\* augment_videos_with_playlists: one video
AugmentVideo(video, playlist_mapping) ==
    LET video_id == Get(video, "video_id", "")
        playlist_names == Get(playlist_mapping, video_id, <<>>)
    IN  [k \in DOMAIN video \cup {"playlists"} |->
            IF k = "playlists" THEN Join(playlist_names) ELSE video[k]]

\* a join that keeps only the videos the index knows
AugmentVideosWithPlaylists_Inner(vs, playlist_mapping) ==
    LET Known(video) == video.video_id \in DOMAIN playlist_mapping
        kept == SelectSeq(vs, Known)
    IN  [i \in DOMAIN kept |-> AugmentVideo(kept[i], playlist_mapping)]

\* augment_videos_with_playlists
AugmentVideosWithPlaylists(vs, playlist_mapping) ==
    [i \in DOMAIN vs |-> AugmentVideo(vs[i], playlist_mapping)]

\* save_to_csv, lines 390-396: the row of one video
CsvRow(video) ==
    [Title |-> video.title,
     Date |-> video.date,
     URL |-> video.url,
     Status |-> "Not started",
     Playlists |-> Get(video, "playlists", "")]

\* save_to_csv, lines 389-396
CsvRows(vs) == [i \in DOMAIN vs |-> CsvRow(vs[i])]

-----------------------------------------------------------------------------
(* Text the program scans: tuples of characters *)

Letters ==
    {"a","b","c","d","e","f","g","h","i","j","k","l","m","n","o","p","q","r",
     "s","t","u","v","w","x","y","z","A","B","C","D","E","F","G","H","I","J",
     "K","L","M","N","O","P","Q","R","S","T","U","V","W","X","Y","Z"}
Digits == {"0","1","2","3","4","5","6","7","8","9"}
\* the class \w
WordChars == Letters \cup Digits \cup {"_"}
\* the class \s
SpaceChars == {" ", "\t", "\n"}
\* the class [\w-]
NameChars == WordChars \cup {"-"}

\* s[i:] for a 1-based i
From(s, i) == SubSeq(s, i, Len(s))

\* s.startswith(t)
StartsWith(s, t) == Len(t) <= Len(s) /\ SubSeq(s, 1, Len(t)) = t

\* t in s
Contains(s, t) == \E i \in 1..(Len(s) + 1) : StartsWith(From(s, i), t)

\* the longest prefix of s made of characters of class
RECURSIVE TakeWhile(_, _)
TakeWhile(s, class) ==
    IF s = <<>> \/ Head(s) \notin class THEN <<>>
    ELSE <<Head(s)>> \o TakeWhile(Tail(s), class)

(***************************************************************************)
(* re.search(literal + '(' + lead + '[\w-]+)', s): the places where the    *)
(* pattern matches, and group(1) of the leftmost match (the greedy run of  *)
(* name characters after literal and lead, lead included).                 *)
(***************************************************************************)
MatchesAt(s, literal, lead) ==
    {i \in 1..Len(s) :
        /\ StartsWith(From(s, i), literal \o lead)
        /\ i + Len(literal) + Len(lead) <= Len(s)
        /\ s[i + Len(literal) + Len(lead)] \in NameChars}

Group1(s, literal, lead) ==
    LET at == MatchesAt(s, literal, lead)
        i == CHOOSE k \in at : \A j \in at : k <= j
    IN  lead \o TakeWhile(From(s, i + Len(literal) + Len(lead)), NameChars)

\* a classifier whose channel pattern is /channel/([\w-]+)
ExtractChannelId_AnyId(u) ==
    IF MatchesAt(u, <<"@">>, <<>>) # {}
    THEN <<"handle", Group1(u, <<"@">>, <<>>)>>
    ELSE IF MatchesAt(u, <<"/","c","h","a","n","n","e","l","/">>, <<>>) # {}
    THEN <<"id", Group1(u, <<"/","c","h","a","n","n","e","l","/">>, <<>>)>>
    ELSE IF MatchesAt(u, <<"/","c","/">>, <<>>) # {}
    THEN <<"custom", Group1(u, <<"/","c","/">>, <<>>)>>
    ELSE IF MatchesAt(u, <<"/","u","s","e","r","/">>, <<>>) # {}
    THEN <<"user", Group1(u, <<"/","u","s","e","r","/">>, <<>>)>>
    ELSE <<"id", u>>

\* extract_channel_id
ExtractChannelId(u) ==
    IF MatchesAt(u, <<"@">>, <<>>) # {}
    THEN <<"handle", Group1(u, <<"@">>, <<>>)>>
    ELSE IF MatchesAt(u, <<"/","c","h","a","n","n","e","l","/">>, <<"U","C">>) # {}
    THEN <<"id", Group1(u, <<"/","c","h","a","n","n","e","l","/">>, <<"U","C">>)>>
    ELSE IF MatchesAt(u, <<"/","c","/">>, <<>>) # {}
    THEN <<"custom", Group1(u, <<"/","c","/">>, <<>>)>>
    ELSE IF MatchesAt(u, <<"/","u","s","e","r","/">>, <<>>) # {}
    THEN <<"user", Group1(u, <<"/","u","s","e","r","/">>, <<>>)>>
    ELSE <<"id", u>>

\* re.sub(r'[^\w\s-]', '', s)
StripUnsafe(s) ==
    LET Safe(c) == c \in WordChars \cup SpaceChars \cup {"-"}
    IN  SelectSeq(s, Safe)

\* re.sub(r'[-\s]+', '_', s)
RECURSIVE CollapseRuns(_)
CollapseRuns(s) ==
    LET class == SpaceChars \cup {"-"}
    IN  IF s = <<>> THEN <<>>
        ELSE IF Head(s) \in class
        THEN <<"_">> \o CollapseRuns(From(s, Len(TakeWhile(s, class)) + 1))
        ELSE <<Head(s)>> \o CollapseRuns(Tail(s))

\* save_to_csv, lines 379-381: the name of the CSV file
CsvFilename(channel_name) ==
    <<"d","a","t","a","/","c","s","v","_","o","u","t","p","u","t","s","/">>
    \o CollapseRuns(StripUnsafe(channel_name))
    \o <<"_","v","i","d","e","o","s",".","c","s","v">>

\* datetime.now().strftime('%Y-%m-%d') on the days of the model
Dates ==
    << <<"2","0","2","4","-","0","5","-","0","1">>,
       <<"2","0","2","4","-","0","5","-","0","2">> >>

\* track_channel, line 332
NewEntry(timestamp, channel_name, channel_id, csv_filename) ==
    LET bar == <<" ", "|", " ">>
    IN  timestamp \o bar \o channel_name \o bar \o channel_id \o bar
        \o csv_filename \o <<"\n">>

\* track_channel, lines 343-350: what is kept for one line of the file
TrackLine(line, channel_id, new_entry) ==
    IF StartsWith(line, <<"#">>) THEN line
    ELSE IF Contains(line, channel_id) THEN new_entry
    ELSE line

\* track_channel, lines 346-348: whether a line sets channel_found
Found(line, channel_id) ==
    ~StartsWith(line, <<"#">>) /\ Contains(line, channel_id)

\* track_channel, lines 336-358: the lines written back
TrackChannelLines(file, channel_id, new_entry) ==
    LET old == IF file.exists THEN file.lines ELSE <<>>
        lines == [i \in DOMAIN old |-> TrackLine(old[i], channel_id, new_entry)]
        channel_found == \E i \in DOMAIN old : Found(old[i], channel_id)
    IN  IF channel_found THEN lines ELSE Append(lines, new_entry)

-----------------------------------------------------------------------------
(* main(): one step per remote request *)

\* the most playlists the listing can hold
ListingMax ==
    IF MaxPlaylists < Cardinality(PlaylistRefs)
    THEN MaxPlaylists ELSE Cardinality(PlaylistRefs)

\* the pages the playlist listing can answer with after `fetched`
ListingPages(fetched) ==
    {t \in SeqsUpTo(PlaylistRefs \ Range(fetched), Cardinality(PlaylistRefs)) :
        Injective(t)}

\* the pages a playlist's membership listing can answer with
ItemPages(pool) == SeqsUpTo(pool, MaxItems)

\* get_uploads_playlist_id
GetUploadsPlaylistId ==
    /\ pc = "channel"
    /\ \/ /\ related_playlists' = RelatedPlaylists
          /\ pc' = "playlists"
          /\ UNCHANGED exit_code
       \/ \* the channel is not found, or HttpError: sys.exit(1)
          /\ pc' = "exit"
          /\ exit_code' = 1
          /\ UNCHANGED related_playlists
    /\ UNCHANGED <<playlists, all_playlists, custom_playlists, pl_i,
                   next_page_token, video_playlist_map, videos, csv, ledger,
                   srvLeft, srvPage, srvBudget, reqLog, servedPages, failedPlaylists,
                   listFailed, uploadsFailed, errMsg, clock, runs, latest,
                   ledger0, url, result>>

\* a listing that returns the pages it had read when the error came
PlaylistsOnError_KeepFetched(fetched) == fetched

\* get_all_playlists, lines 160-162: what is returned on HttpError
PlaylistsOnError(fetched) == <<>>

\* main, lines 445-454: get_all_playlists has returned `all`
ReturnPlaylists(all) ==
    LET custom == FilterCustomPlaylists(all, related_playlists)
    IN  /\ all_playlists' = all
        /\ custom_playlists' = custom
        /\ playlists' = <<>>
        /\ next_page_token' = NoToken
        /\ srvLeft' = 0
        /\ srvPage' = 0
        /\ pl_i' = IF custom # <<>> THEN 1 ELSE 0
        /\ pc' = IF custom # <<>> THEN "mapping" ELSE "videos"

\* get_all_playlists: one request of the playlist listing
GetAllPlaylistsPage ==
    /\ pc = "playlists"
    /\ reqLog' = Append(reqLog, Request("playlists", "snippet,contentDetails",
                                        ChannelKey, next_page_token))
    /\ \/ \* HttpError
          /\ listFailed' = TRUE
          /\ ReturnPlaylists(PlaylistsOnError(playlists))
       \/ \E n \in Sizes(next_page_token, ListingMax) :
          \E size \in PageSizes(next_page_token) :
          \E a \in PageAnswers(n, size, next_page_token, ListingPages(playlists)) :
             LET fetched == playlists \o a.items
             IN  /\ UNCHANGED listFailed
                 /\ IF a.nextPageToken = NoToken
                    THEN ReturnPlaylists(fetched)
                    ELSE /\ playlists' = fetched
                         /\ next_page_token' = a.nextPageToken
                         /\ srvLeft' = a.left
                         /\ srvPage' = size
                         /\ UNCHANGED <<all_playlists, custom_playlists, pl_i, pc>>
    /\ UNCHANGED <<exit_code, related_playlists, video_playlist_map, videos,
                   csv, ledger, srvBudget, servedPages, failedPlaylists, uploadsFailed,
                   errMsg, clock, runs, latest, ledger0, url,
                   result>>

\* build_video_playlist_mapping, line 202: on to the next playlist
NextPlaylist ==
    /\ next_page_token' = NoToken
    /\ srvLeft' = 0
    /\ srvPage' = 0
    /\ IF pl_i < Len(custom_playlists)
       THEN pl_i' = pl_i + 1 /\ pc' = "mapping"
       ELSE pl_i' = 0 /\ pc' = "videos"

\* build_video_playlist_mapping: one request of a custom playlist's membership
BuildMappingPage ==
    /\ pc = "mapping"
    /\ LET playlist_id == custom_playlists[pl_i][1]
           playlist_title == custom_playlists[pl_i][2]
       IN  /\ reqLog' = Append(reqLog, Request("playlistItems", "contentDetails",
                                               playlist_id, next_page_token))
           /\ \/ \* HttpError: warn and continue
                 /\ failedPlaylists' = failedPlaylists \cup {playlist_id}
                 /\ UNCHANGED <<video_playlist_map, srvBudget>>
                 /\ NextPlaylist
              \/ \E n \in Sizes(next_page_token, srvBudget) :
                 \E size \in PageSizes(next_page_token) :
                 \E a \in PageAnswers(n, size, next_page_token,
                                      ItemPages(MemberPool)) :
                    /\ srvBudget' = Budget(next_page_token, n)
                    /\ video_playlist_map' =
                          AddItems(video_playlist_map, a.items, playlist_title)
                    /\ UNCHANGED failedPlaylists
                    /\ IF a.nextPageToken = NoToken
                       THEN NextPlaylist
                       ELSE /\ next_page_token' = a.nextPageToken
                            /\ srvLeft' = a.left
                            /\ srvPage' = size
                            /\ UNCHANGED <<pl_i, pc>>
    /\ UNCHANGED <<exit_code, related_playlists, playlists, all_playlists,
                   custom_playlists, videos, csv, ledger, servedPages,
                   listFailed, uploadsFailed, errMsg, clock, runs, latest,
                   ledger0, url, result>>

\* a reader that warns and returns what it has, as get_all_playlists does
FetchError_Swallow(status) ==
    /\ errMsg' = "error fetching videos"
    /\ uploadsFailed' = TRUE
    /\ pc' = IF videos = <<>> THEN "exit" ELSE "augment"
    /\ exit_code' = IF videos = <<>> THEN 0 ELSE exit_code
    /\ UNCHANGED <<videos, servedPages, next_page_token, srvLeft, srvPage,
                   srvBudget>>

\* fetch_all_videos, lines 306-312: HttpError with resp.status = status
FetchError(status) ==
    /\ errMsg' = IF status = 403 THEN "quota exceeded or access forbidden"
                 ELSE "error fetching videos"
    /\ uploadsFailed' = TRUE
    /\ pc' = "exit"
    /\ exit_code' = 1
    /\ UNCHANGED <<videos, servedPages, next_page_token, srvLeft, srvPage,
                   srvBudget>>

\* a reader that keeps only the page just read
Accumulate_LastPage(vs, items) == VideoRecords(items)

\* fetch_all_videos, lines 280-297: the accumulator after one page
Accumulate(vs, items) == vs \o VideoRecords(items)

\* fetch_all_videos: one request of the uploads listing
FetchVideosPage ==
    /\ pc = "videos"
    /\ reqLog' = Append(reqLog, Request("playlistItems", "snippet,contentDetails",
                                        related_playlists.uploads,
                                        next_page_token))
    /\ \/ \E status \in HttpStatuses : FetchError(status)
       \/ \E n \in Sizes(next_page_token, srvBudget) :
          \E size \in PageSizes(next_page_token) :
          \E a \in PageAnswers(n, size, next_page_token, ItemPages(UploadPool)) :
             /\ srvBudget' = Budget(next_page_token, n)
             /\ videos' = Accumulate(videos, a.items)
             /\ servedPages' = Append(servedPages,
                                      [items |-> a.items,
                                       nextPageToken |-> a.nextPageToken])
             /\ UNCHANGED <<uploadsFailed, errMsg>>
             /\ IF a.nextPageToken = NoToken
                THEN \* main, lines 459-461
                     /\ next_page_token' = NoToken
                     /\ srvLeft' = 0
                     /\ srvPage' = 0
                     /\ IF videos' = <<>>
                        THEN pc' = "exit" /\ exit_code' = 0
                        ELSE pc' = "augment" /\ UNCHANGED exit_code
                ELSE /\ next_page_token' = a.nextPageToken
                     /\ srvLeft' = a.left
                     /\ srvPage' = size
                     /\ UNCHANGED <<pc, exit_code>>
    /\ UNCHANGED <<related_playlists, playlists, all_playlists,
                   custom_playlists, pl_i, video_playlist_map, csv, ledger,
                   failedPlaylists, listFailed, clock, runs, latest,
                   ledger0, url, result>>

\* main, line 464
Augment ==
    /\ pc = "augment"
    /\ videos' = AugmentVideosWithPlaylists(videos, video_playlist_map)
    /\ pc' = "save"
    /\ UNCHANGED <<exit_code, related_playlists, playlists, all_playlists,
                   custom_playlists, pl_i, next_page_token, video_playlist_map,
                   csv, ledger, srvLeft, srvPage, srvBudget, reqLog, servedPages,
                   failedPlaylists, listFailed, uploadsFailed, errMsg, clock,
                   runs, latest, ledger0, url,
                   result>>

\* save_to_csv
SaveToCsv ==
    /\ pc = "save"
    /\ \/ /\ csv' = [exists |-> TRUE,
                     filename |-> CsvFilename(ChannelName),
                     rows |-> CsvRows(videos)]
          /\ pc' = "track"
          /\ UNCHANGED exit_code
       \/ \* IOError: sys.exit(1)
          /\ pc' = "exit"
          /\ exit_code' = 1
          /\ UNCHANGED csv
    /\ UNCHANGED <<related_playlists, playlists, all_playlists,
                   custom_playlists, pl_i, next_page_token, video_playlist_map,
                   videos, ledger, srvLeft, srvPage, srvBudget, reqLog, servedPages,
                   failedPlaylists, listFailed, uploadsFailed, errMsg, clock,
                   runs, latest, ledger0, url,
                   result>>

\* track_channel
TrackChannel(channel_name, channel_id, csv_filename) ==
    LET new_entry == NewEntry(Dates[clock'], channel_name, channel_id, csv_filename)
    IN  \/ /\ ledger' = [exists |-> TRUE,
                         lines |-> TrackChannelLines(ledger, channel_id, new_entry)]
           /\ latest' = [c \in DOMAIN latest \cup {channel_id} |->
                           IF c = channel_id THEN new_entry ELSE latest[c]]
        \/ \* IOError: warn
           UNCHANGED <<ledger, latest>>

\* main, line 471
MainTrack ==
    /\ pc = "track"
    /\ UNCHANGED clock
    /\ TrackChannel(ChannelName, ChannelId, csv.filename)
    /\ pc' = "done"
    /\ exit_code' = 0
    /\ UNCHANGED <<related_playlists, playlists, all_playlists,
                   custom_playlists, pl_i, next_page_token, video_playlist_map,
                   videos, csv, srvLeft, srvPage, srvBudget, reqLog, servedPages,
                   failedPlaylists,
                   listFailed, uploadsFailed, errMsg, runs, ledger0, url,
                   result>>

\* the ledger before the run: no file, or a header
Header == <<"#", " ", "d", "a", "t", "e", " ", "|", " ", "i", "d", "\n">>
Ledgers == {NoFile, [exists |-> TRUE, lines |-> <<Header>>]}

\* what no run of main() has touched yet
Idle ==
    /\ exit_code = Running
    /\ related_playlists = <<>>
    /\ playlists = <<>>
    /\ all_playlists = <<>>
    /\ custom_playlists = <<>>
    /\ pl_i = 0
    /\ next_page_token = NoToken
    /\ video_playlist_map = <<>>
    /\ videos = <<>>
    /\ csv = NoCsv
    /\ srvLeft = 0
    /\ srvPage = 0
    /\ srvBudget = MaxItems
    /\ reqLog = <<>>
    /\ servedPages = <<>>
    /\ failedPlaylists = {}
    /\ listFailed = FALSE
    /\ uploadsFailed = FALSE
    /\ errMsg = ""
    /\ clock = 1
    /\ runs = 0
    /\ latest = <<>>

Init ==
    /\ pc = "channel"
    /\ Idle
    /\ ledger \in Ledgers
    /\ ledger0 = ledger
    /\ url = <<>>
    /\ result = NoResult

Next ==
    \/ GetUploadsPlaylistId
    \/ GetAllPlaylistsPage
    \/ BuildMappingPage
    \/ FetchVideosPage
    \/ Augment
    \/ SaveToCsv
    \/ MainTrack

Spec == Init /\ [][Next]_vars

-----------------------------------------------------------------------------
(* The tracking ledger over several runs *)

\* the channels tracked: display title and id.  The second channel's title
\* quotes the first one's id.
Channels ==
    {[name |-> <<"A", "b">>, id |-> <<"U", "C", "a">>],
     [name |-> <<"U", "C", "a", " ", "f", "a", "n">>, id |-> <<"U", "C", "b">>],
     [name |-> <<"C", "d">>, id |-> <<"U", "C", "d">>]}

\* one run's track_channel call, on the day of the run
LedgerRun ==
    /\ pc = "ledger"
    /\ runs < MaxRuns
    /\ runs' = runs + 1
    /\ \E day \in clock..Len(Dates) : clock' = day
    /\ \E ch \in Channels : TrackChannel(ch.name, ch.id, CsvFilename(ch.name))
    /\ UNCHANGED <<pc, exit_code, related_playlists, playlists, all_playlists,
                   custom_playlists, pl_i, next_page_token, video_playlist_map,
                   videos, csv, srvLeft, srvPage, srvBudget, reqLog, servedPages,
                   failedPlaylists, listFailed, uploadsFailed, errMsg, ledger0,
                   url, result>>

InitLedger ==
    /\ pc = "ledger"
    /\ Idle
    /\ ledger \in Ledgers
    /\ ledger0 = ledger
    /\ url = <<>>
    /\ result = NoResult

SpecLedger == InitLedger /\ [][LedgerRun]_vars

-----------------------------------------------------------------------------
(* The channel-reference classifier on its own *)

\* the pieces a channel reference is made of
Segments ==
    {<<"@">>, <<"/","c","h","a","n","n","e","l","/">>, <<"/","c","/">>,
     <<"/","u","s","e","r","/">>, <<"U","C">>, <<"U","C","_">>, <<"a","b">>,
     <<"-">>, <<".">>, <<"/">>}

\* the channel references tried
Urls == {Flatten(t) : t \in SeqsUpTo(Segments, MaxSegs)}

\* main, line 427
Extract ==
    /\ pc = "resolve"
    /\ result' = ExtractChannelId(url)
    /\ pc' = "resolved"
    /\ UNCHANGED <<exit_code, related_playlists, playlists, all_playlists,
                   custom_playlists, pl_i, next_page_token, video_playlist_map,
                   videos, csv, ledger, srvLeft, srvPage, srvBudget, reqLog, servedPages,
                   failedPlaylists, listFailed, uploadsFailed, errMsg, clock,
                   runs, latest, ledger0, url>>

InitResolver ==
    /\ pc = "resolve"
    /\ Idle
    /\ ledger = NoFile
    /\ ledger0 = ledger
    /\ url \in Urls
    /\ result = NoResult

SpecResolver == InitResolver /\ [][Extract]_vars

-----------------------------------------------------------------------------
(* What the properties read off the state *)

\* the requests of the uploads reader, of the merge, and of the playlist listing
IsUploadRequest(r) == r.api = "playlistItems" /\ r.part = "snippet,contentDetails"
IsMemberRequest(r) == r.api = "playlistItems" /\ r.part = "contentDetails"
IsListingRequest(r) == r.api = "playlists"
UploadRequests == SelectSeq(reqLog, IsUploadRequest)
MemberRequests == SelectSeq(reqLog, IsMemberRequest)
ListingRequests == SelectSeq(reqLog, IsListingRequest)

\* the video ids of the uploads listing, page after page
ServedItems == Flatten([i \in DOMAIN servedPages |-> servedPages[i].items])

\* fetch_all_videos has returned
FetchReturned ==
    \/ pc \in {"augment", "save", "track", "done"}
    \/ pc = "exit" /\ UploadRequests # <<>> /\ ~uploadsFailed

\* titles with a comma between neighbours, built from the left
RECURSIVE CommaSeparated(_)
CommaSeparated(titles) ==
    IF titles = <<>> THEN ""
    ELSE IF Len(titles) = 1 THEN titles[1]
    ELSE CommaSeparated(SubSeq(titles, 1, Len(titles) - 1))
         \o "," \o titles[Len(titles)]

\* the place of a playlist, by id or by title, in the filtered list
PlaceOfId(id) == CHOOSE i \in DOMAIN custom_playlists : custom_playlists[i][1] = id
PlaceOfTitle(t) == CHOOSE i \in DOMAIN custom_playlists : custom_playlists[i][2] = t

-----------------------------------------------------------------------------
(* C1: when the uploads reader returns after the listing answered with k   *)
(* pages, it has issued exactly k requests, the first with no token and    *)
(* each later one with the token of the page before, no token twice, the   *)
(* last page carrying no token; its records are the items of the pages in  *)
(* page order and in the order inside each page.  An empty listing gives   *)
(* no record after one request.                                            *)
C1_ReaderDrainsAllPages ==
    FetchReturned =>
        /\ Len(UploadRequests) = Len(servedPages)
        /\ Len(servedPages) >= 1
        /\ \A i \in DOMAIN UploadRequests :
              /\ UploadRequests[i].id = RelatedPlaylists.uploads
              /\ UploadRequests[i].pageToken =
                    IF i = 1 THEN NoToken ELSE servedPages[i - 1].nextPageToken
              /\ \A j \in DOMAIN UploadRequests :
                    i # j => UploadRequests[i].pageToken # UploadRequests[j].pageToken
        /\ \A i \in DOMAIN servedPages :
              (servedPages[i].nextPageToken = NoToken) <=> (i = Len(servedPages))
        /\ Len(videos) = Len(ServedItems)
        /\ \A i \in DOMAIN videos : videos[i].video_id = ServedItems[i]
        /\ (ServedItems = <<>> => videos = <<>> /\ Len(UploadRequests) = 1)

\* the reader returns after two full pages, the first with two different items
C1_Witness ==
    /\ pc = "augment"
    /\ Len(servedPages) = 2
    /\ Len(servedPages[1].items) = 2
    /\ servedPages[1].items[1] # servedPages[1].items[2]
    /\ Len(videos) = 4

(* C2: once a request of the uploads listing has failed, the run has       *)
(* ended with exit code 1 and there is no CSV file, whatever was read and  *)
(* merged before.                                                          *)
C2_UploadsFailureIsFatal ==
    uploadsFailed => pc = "exit" /\ exit_code = 1 /\ ~csv.exists

\* the second page of the uploads listing is refused after a merge that found videos
C2_Witness ==
    /\ uploadsFailed
    /\ Len(servedPages) = 1
    /\ Len(UploadRequests) = 2
    /\ errMsg = "quota exceeded or access forbidden"
    /\ DOMAIN video_playlist_map # {}

(* C3: the title of a custom playlist whose read failed is attached to no  *)
(* video.                                                                  *)
C3_FailedPlaylistLeavesNoTitle ==
    \A i \in DOMAIN custom_playlists :
        custom_playlists[i][1] \in failedPlaylists =>
            \A v \in DOMAIN video_playlist_map :
                custom_playlists[i][2] \notin Range(video_playlist_map[v])

(* C4: the filtered list holds exactly the listed playlists whose id is no *)
(* related-playlists value, in listing order; the merge requests the       *)
(* membership of no playlist with such an id, and every title in the index *)
(* is the title of a listed playlist with no such id.                      *)
C4_SystemPlaylistsExcluded ==
    pc \notin {"channel", "playlists"} =>
        LET system == Values(related_playlists)
            kept == {i \in DOMAIN all_playlists : all_playlists[i][1] \notin system}
        IN  /\ Len(custom_playlists) = Cardinality(kept)
            /\ \A i \in kept : all_playlists[i] \in Range(custom_playlists)
            /\ \A i \in DOMAIN custom_playlists :
                  \E a \in kept : all_playlists[a] = custom_playlists[i]
            /\ \A i, j \in DOMAIN custom_playlists :
                  i < j => \E a, b \in kept :
                              /\ a < b
                              /\ all_playlists[a] = custom_playlists[i]
                              /\ all_playlists[b] = custom_playlists[j]
            /\ \A k \in DOMAIN MemberRequests : MemberRequests[k].id \notin system
            /\ \A v \in DOMAIN video_playlist_map :
                  \A t \in Range(video_playlist_map[v]) :
                     \E a \in kept : all_playlists[a][2] = t

\* the listing held the uploads playlist between two custom ones, and both were read
C4_Witness ==
    /\ pc = "done"
    /\ Len(all_playlists) = 3
    /\ all_playlists[2][1] = RelatedPlaylists.uploads
    /\ Len(custom_playlists) = 2
    /\ \E v \in DOMAIN video_playlist_map : Len(video_playlist_map[v]) = 2

(* C5: the titles of a video stand in the order of the filtered list, the  *)
(* membership requests go through the filtered list in order, each         *)
(* playlist's requests together and opened with no token, and the exported *)
(* Playlists field is the titles with a comma between them in that order.  *)
C5_TitlesInProcessingOrder ==
    /\ \A v \in DOMAIN video_playlist_map :
          \A i, j \in DOMAIN video_playlist_map[v] :
             i < j => PlaceOfTitle(video_playlist_map[v][i])
                         <= PlaceOfTitle(video_playlist_map[v][j])
    /\ \A i, j \in DOMAIN MemberRequests :
          i < j => PlaceOfId(MemberRequests[i].id) <= PlaceOfId(MemberRequests[j].id)
    /\ \A i \in DOMAIN MemberRequests :
          (i = 1 \/ MemberRequests[i - 1].id # MemberRequests[i].id)
             => MemberRequests[i].pageToken = NoToken
    /\ csv.exists =>
          \A i \in DOMAIN csv.rows :
             csv.rows[i].Playlists =
                CommaSeparated(Get(video_playlist_map, ServedItems[i], <<>>))

\* the listing names B before A, and a video of both is exported as "B,A"
C5_Witness ==
    /\ csv.exists
    /\ custom_playlists = << <<"PLb", "B">>, <<"PLa", "A">> >>
    /\ \E i \in DOMAIN csv.rows : csv.rows[i].Playlists = "B,A"

(* C6: the CSV holds one row for each record of the uploads listing, in    *)
(* listing order, with Status "Not started"; the Playlists field is empty  *)
(* exactly when the video is in no custom playlist read, and a video that  *)
(* only the index knows has no row.                                        *)
C6_OneRowPerUpload ==
    csv.exists =>
        /\ Len(csv.rows) = Len(ServedItems)
        /\ \A i \in DOMAIN csv.rows :
              /\ csv.rows[i].Title = SnippetTitle(ServedItems[i])
              /\ csv.rows[i].URL = "https://www.youtube.com/watch?v=" \o ServedItems[i]
              /\ csv.rows[i].Status = "Not started"
              /\ (csv.rows[i].Playlists = "")
                    <=> (ServedItems[i] \notin DOMAIN video_playlist_map)
        /\ \A v \in DOMAIN video_playlist_map \ Range(ServedItems) :
              \A i \in DOMAIN csv.rows :
                 csv.rows[i].URL # "https://www.youtube.com/watch?v=" \o v

\* an upload in no playlist, an upload in one, and a playlist video never uploaded
C6_Witness ==
    /\ csv.exists
    /\ "v3" \in DOMAIN video_playlist_map
    /\ \E i, j \in DOMAIN csv.rows :
          /\ i < j
          /\ csv.rows[i].Playlists = ""
          /\ csv.rows[j].Playlists = "A"

(* C9: no title stands twice in a video's list of playlists.               *)
C9_TitlesDuplicateFree ==
    \A v \in DOMAIN video_playlist_map : Injective(video_playlist_map[v])

(* C10: once a request of the playlist listing has failed, the listing     *)
(* returned is empty, so is the filtered list and the index, no membership *)
(* is requested, the run goes on to read the uploads listing, and every    *)
(* row of a CSV written has an empty Playlists field.                      *)
C10_ListingFailureYieldsNoPlaylists ==
    listFailed =>
        /\ all_playlists = <<>>
        /\ custom_playlists = <<>>
        /\ MemberRequests = <<>>
        /\ DOMAIN video_playlist_map = {}
        /\ pc = "videos" \/ UploadRequests # <<>>
        /\ (pc = "exit" /\ exit_code = 1) => (uploadsFailed \/ videos # <<>>)
        /\ csv.exists => \A i \in DOMAIN csv.rows : csv.rows[i].Playlists = ""

\* the second page of the playlist listing failed and a CSV was written
C10_Witness ==
    /\ listFailed
    /\ Len(ListingRequests) = 2
    /\ csv.exists
    /\ pc = "done"

-----------------------------------------------------------------------------
(* The shapes of a channel reference, read off the text *)

Min(S) == CHOOSE k \in S : \A j \in S : k <= j

\* the longest run of name characters right after the marker standing at place i
\* of u; empty when there is none
PayloadAt(u, marker, i) ==
    LET start == i + Len(marker)
        ends == {e \in start..Len(u) :
                    /\ \A k \in start..e : u[k] \in NameChars
                    /\ e = Len(u) \/ u[e + 1] \notin NameChars}
    IN  IF ends = {} THEN <<>> ELSE SubSeq(u, start, Min(ends))

\* the places of u where the marker stands with a payload after it
ShapePlaces(u, marker) ==
    {i \in 1..Len(u) :
        StartsWith(From(u, i), marker) /\ PayloadAt(u, marker, i) # <<>>}

\* the payload of the first such place
FirstPayload(u, marker) == PayloadAt(u, marker, Min(ShapePlaces(u, marker)))

AtMarker == <<"@">>
ChannelMarker == <<"/", "c", "h", "a", "n", "n", "e", "l", "/">>
CustomMarker == <<"/", "c", "/">>
UserMarker == <<"/", "u", "s", "e", "r", "/">>

\* the places where "/channel/" is followed by UC and at least one more name character
UcPlaces(u) ==
    {i \in ShapePlaces(u, ChannelMarker) :
        LET p == PayloadAt(u, ChannelMarker, i)
        IN  Len(p) >= 3 /\ SubSeq(p, 1, 2) = <<"U", "C">>}

\* the classification the four shapes give, in priority order, a channel ID being
\* any payload
ClassifiedAnyId(u) ==
    IF ShapePlaces(u, AtMarker) # {} THEN <<"handle", FirstPayload(u, AtMarker)>>
    ELSE IF ShapePlaces(u, ChannelMarker) # {}
    THEN <<"id", FirstPayload(u, ChannelMarker)>>
    ELSE IF ShapePlaces(u, CustomMarker) # {}
    THEN <<"custom", FirstPayload(u, CustomMarker)>>
    ELSE IF ShapePlaces(u, UserMarker) # {}
    THEN <<"user", FirstPayload(u, UserMarker)>>
    ELSE <<"id", u>>

\* the same, a channel ID being a payload that begins with UC and goes on
ClassifiedUcId(u) ==
    IF ShapePlaces(u, AtMarker) # {} THEN <<"handle", FirstPayload(u, AtMarker)>>
    ELSE IF UcPlaces(u) # {}
    THEN <<"id", PayloadAt(u, ChannelMarker, Min(UcPlaces(u)))>>
    ELSE IF ShapePlaces(u, CustomMarker) # {}
    THEN <<"custom", FirstPayload(u, CustomMarker)>>
    ELSE IF ShapePlaces(u, UserMarker) # {}
    THEN <<"user", FirstPayload(u, UserMarker)>>
    ELSE <<"id", u>>

(* C7, as claimed: the classifier returns the tag and the payload of the   *)
(* first shape present among "@handle", "/channel/<ID>", "/c/<name>" and   *)
(* "/user/<name>", and the tag Id with the whole input when none is.       *)
C7_ClassifiesAnyChannelId ==
    pc = "resolved" => result = ClassifiedAnyId(url)

(* C7, amended: as above, the "/channel/<ID>" shape being present only     *)
(* where the ID begins with "UC" and goes on with at least one more word   *)
(* character or hyphen.                                                    *)
C7_ClassifiesUcChannelId ==
    pc = "resolved" => result = ClassifiedUcId(url)

\* a channel path is classified although a custom path follows it
C7_Witness ==
    /\ pc = "resolved"
    /\ url = ChannelMarker \o <<"U", "C", "_">> \o CustomMarker \o <<"a", "b">>
    /\ result = <<"id", <<"U", "C", "_">> >>

-----------------------------------------------------------------------------
(* The ledger, read off the file *)

IsComment(line) == StartsWith(line, <<"#">>)
IsEntry(line) == ~IsComment(line)

\* the entry lines of the ledger
Entries == SelectSeq(ledger.lines, IsEntry)

(* C8: after any runs on a ledger that held only comment lines or did not  *)
(* exist, the comment lines stand where they stood, and the entry lines    *)
(* are, once each, the entries of the most recent run of every channel     *)
(* tracked.                                                                *)
C8_LedgerIsUpsert ==
    pc = "ledger" =>
        /\ \A i \in DOMAIN ledger0.lines :
              i \in DOMAIN ledger.lines /\ ledger.lines[i] = ledger0.lines[i]
        /\ Len(Entries) = Cardinality(DOMAIN latest)
        /\ \A c \in DOMAIN latest :
              Cardinality({i \in DOMAIN Entries : Entries[i] = latest[c]}) = 1

====
